---- MODULE Spec2Model ----
(***************************************************************************)
(* A model of metrics.py: the process-wide metrics buffer of the           *)
(* DeepVariant runner, its JSON envelope, the single POST of               *)
(* submit_metrics, and the shutdown function with its two decorators.      *)
(*                                                                         *)
(* Python strings that the code only stores and copies are TLA+ strings.   *)
(* Attribute keys, which the code sorts, are sequences of code points so   *)
(* that the comparison of sorted() is computed and not assumed.            *)
(* json.dumps(..., sort_keys=True) renders a dict of strings and lists     *)
(* canonically and injectively; its result is modelled by the rendered     *)
(* structure (a record, whose fields have no order).                       *)
(***************************************************************************)
EXTENDS Integers, Sequences, FiniteSets, TLC

VARIABLES
  events,           \* _MetricsCollector._events, the class attribute (a list)
  session,          \* _MetricsCollector._session_identifier, the class attribute
  dicts,            \* the dict objects built by add_metrics, by identity (1..)
  callerKw,         \* the caller's own attribute mapping object (identity 0)
  heap,             \* the caller's mutable attribute value objects (lists)
  post_args,        \* the arguments of the last call of requests.post
  post_count,       \* the number of calls of requests.post
  clock,            \* what time.time() returns next, in seconds
  atexit_handlers,  \* the callables atexit holds
  shutdown_fn,      \* what the module-level name `shutdown` is bound to
  phase,            \* "running" until the interpreter exits, then "exited"
  last,             \* the last call: what was called, what the network
                    \* answered, what reached the caller, what was logged
  addLog,           \* history: the arguments of every add that returned
  submitCalls,      \* history: the number of calls of submit_metrics
  shutdownCalls,    \* history: the number of calls of metrics.shutdown()
  shutdownRuns      \* history: the number of runs of the body of shutdown

vars == <<events, session, dicts, callerKw, heap, post_args, post_count, clock,
          atexit_handlers, shutdown_fn, phase, last, addLog, submitCalls,
          shutdownCalls, shutdownRuns>>

----------------------------------------------------------------------------
(* Bounds of the model *)

\* add calls that append
MaxEvents == 2
\* submit_metrics calls before the interpreter exits
MaxPosts == 1
\* attributes of one mapping, where the mappings are enumerated
MaxAttrs == 3

----------------------------------------------------------------------------
(* Module constants, metrics.py:45-51 *)

_CLEARCUT_ENDPOINT == "https://play.googleapis.com/log"
_CLOUD_HCLS_OSS == "CLOUD_HCLS_OSS"
_CONCORD == "CONCORD"
_DEEP_VARIANT_RUN == "DeepVariantRun"
_HTTP_REQUEST_TIMEOUT_SEC == 10
_PYTHON == "PYTHON"
_VIRTUAL_HCLS_DEEPVARIANT == "virtual.hcls.deepvariant"

None == "None"
NoException == "no exception"

----------------------------------------------------------------------------
(* Python values *)

\* Attribute keys as code points: "B", "a", "ab", "b", and the three names
\* that are parameters of add / add_metrics.
K_B == <<66>>
K_a == <<97>>
K_ab == <<97, 98>>
K_b == <<98>>
K_self == <<115, 101, 108, 102>>
K_project_number ==
  <<112, 114, 111, 106, 101, 99, 116, 95, 110, 117, 109, 98, 101, 114>>
K_metrics_name == <<109, 101, 116, 114, 105, 99, 115, 95, 110, 97, 109, 101>>

\* Attribute values: int, bool and str literals, and a reference to a list
\* object that the caller still holds.
IntV(n) == [type |-> "int", v |-> n]
BoolV(b) == [type |-> "bool", v |-> b]
StrV(s) == [type |-> "str", v |-> s]
RefV(o) == [type |-> "list", v |-> o]

\* The caller's list objects, by identity.
ObjIds == {1}
\* What a list object may hold: [] or [1].
ListContents == {<<>>, <<1>>}

Digit(d) ==
  CASE d = 0 -> "0" [] d = 1 -> "1" [] d = 2 -> "2" [] d = 3 -> "3"
    [] d = 4 -> "4" [] d = 5 -> "5" [] d = 6 -> "6" [] d = 7 -> "7"
    [] d = 8 -> "8" [] d = 9 -> "9"

\* str(n) of a non-negative int
RECURSIVE IntToStr(_)
IntToStr(n) == IF n < 10 THEN Digit(n) ELSE IntToStr(n \div 10) \o Digit(n % 10)

\* ", ".join(repr(x) for x in l) of a list of ints
RECURSIVE JoinInts(_)
JoinInts(l) ==
  IF l = <<>> THEN ""
  ELSE IF Len(l) = 1 THEN IntToStr(l[1])
  ELSE IntToStr(l[1]) \o ", " \o JoinInts(Tail(l))

\* str(v), with the list objects as they are in h
PyStr(v, h) ==
  CASE v.type = "int" -> IntToStr(v.v)
    [] v.type = "bool" -> (IF v.v THEN "True" ELSE "False")
    [] v.type = "str" -> v.v
    [] v.type = "list" -> "[" \o JoinInts(h[v.v]) \o "]"

\* a < b for two str, as Python compares them: by code point, a proper
\* prefix first
RECURSIVE StrLess(_, _)
StrLess(a, b) ==
  IF b = <<>> THEN FALSE
  ELSE IF a = <<>> THEN TRUE
  ELSE IF a[1] # b[1] THEN a[1] < b[1]
  ELSE StrLess(Tail(a), Tail(b))

\* A dict is the sequence of its items <<key, value>> in insertion order;
\* its keys are distinct.
DictKeys(d) == {d[i][1] : i \in 1..Len(d)}

\* sorted(d.items()): the items are tuples, compared on the key first; the
\* keys of a dict differ, so the values are never compared.
RECURSIVE InsertItem(_, _)
InsertItem(s, it) ==
  IF s = <<>> THEN <<it>>
  ELSE IF StrLess(it[1], s[1][1]) THEN <<it>> \o s
  ELSE <<s[1]>> \o InsertItem(Tail(s), it)

\* The items in insertion order, as d.items() gives them.
Unsorted(items) == items

RECURSIVE Sorted(_)
Sorted(items) ==
  IF items = <<>> THEN <<>>
  ELSE InsertItem(Sorted(SubSeq(items, 1, Len(items) - 1)), items[Len(items)])

----------------------------------------------------------------------------
(* Inputs of the model *)

\* The two _MetricsCollector instances the callers hold.
Handles == {"first_metric_collector", "second_metric_collector"}
\* Who makes a call: one of the instances, or the module-level add() or
\* shutdown() (each on a new instance), or the interpreter at exit.
ViaAdd == "metrics.add"
ViaShutdown == "metrics.shutdown"
ViaAtexit == "atexit"

\* The instance that adds through add_metrics; the other one only submits.
AddingHandles == {"first_metric_collector"}

\* The metrics name each adding caller uses, as in
\* test_two_metrics_collector.
MetricsNameOf(via) ==
  CASE via = "first_metric_collector" -> "test-metrics-1"
    [] via = ViaAdd -> "test-metrics-3"

ProjectNumbers == {123}

\* The attribute mappings the caller builds.
KwInputs ==
  { << <<K_a, IntV(1)>> >>,
    << <<K_b, RefV(1)>>, <<K_a, BoolV(TRUE)>> >>,
    << <<K_self, StrV("string-1")>> >> }

\* uuid.uuid4().hex, drawn once when the class body runs; "abcd" is the
\* value the tests patch in.
SessionIds == {"abcd"}

\* What the network answers to one POST: a response with a status, or an
\* exception of the transport and no response.
NetOutcomes ==
  { [err |-> NoException, status |-> 200],
    [err |-> NoException, status |-> 503],
    [err |-> "ConnectionError", status |-> 0] }
\* No request was made.
NoNet == [err |-> NoException, status |-> 0]
\* requests.post was not called yet.
NoCall == [url |-> None]

----------------------------------------------------------------------------
(* capture_exceptions, atexit.register and the callables *)

\* A callable: the function it runs and whether a capture_exceptions
\* wrapper is around it.
RawShutdown == [name |-> "shutdown", capture |-> FALSE]

\* A decorator that returns the function it is given.
NotCapturing(func) == func

\* capture_exceptions(func): the wrapper; functools.wraps keeps the name.
capture_exceptions(func) == [func EXCEPT !.capture = TRUE]

\* Calling a callable whose body raises exc (or NoException): what reaches
\* the caller, and what logging.error receives.
Invoke(fn, exc) ==
  IF fn.capture /\ exc # NoException
  THEN [raised |-> NoException, logged |-> <<[func |-> fn.name, exc |-> exc]>>]
  ELSE [raised |-> exc, logged |-> <<>>]

\* shutdown bound to a wrapper, and nothing registered with atexit.
ShutdownNotRegistered ==
  [handlers |-> <<>>, bound |-> capture_exceptions(RawShutdown)]

\* The decorators of shutdown, applied bottom-up: atexit.register(shutdown)
\* registers the function it is given and returns it unchanged; then
\* capture_exceptions wraps what atexit.register returned, and the module
\* name is bound to that wrapper.
ShutdownDecorated ==
  LET registered == RawShutdown
  IN  [handlers |-> <<registered>>, bound |-> capture_exceptions(registered)]

----------------------------------------------------------------------------
(* _ConcordEvent *)

\* The dict object with identity id: 0 is the caller's own mapping, the
\* others are the dicts add_metrics built.
Deref(id, ds, kw) == IF id = 0 THEN kw ELSE ds[id]

\* _ConcordEvent.__init__: the fields are stored as given; event_metadata
\* is a reference to a dict (`or {}` replaces an empty dict by an empty dict).
ConcordEvent(event_name, event_type, project_number, console_type, page_hostname, event_metadata) ==
  [event_name |-> event_name, event_type |-> event_type,
   project_number |-> project_number, console_type |-> console_type,
   page_hostname |-> page_hostname, event_metadata |-> event_metadata]

\* _ConcordEvent._event_metadata_as_kv: the items sorted, each value
\* through str() as the value object is at this moment.
EventMetadataAsKv(e, ds, kw, h) ==
  LET items == Sorted(Deref(e.event_metadata, ds, kw))
  IN  [i \in 1..Len(items) |->
         [key |-> items[i][1], value |-> PyStr(items[i][2], h)]]

\* _ConcordEvent.to_json
ToJson(e, ds, kw, h) ==
  [project_number |-> IntToStr(e.project_number),
   event_name |-> e.event_name,
   event_type |-> e.event_type,
   console_type |-> e.console_type,
   page_hostname |-> e.page_hostname,
   event_metadata |-> EventMetadataAsKv(e, ds, kw, h)]

----------------------------------------------------------------------------
(* _MetricsCollector *)

\* _now_ms() when time.time() returns t
NowMs(t) == t * 1000

\* self._events of whoever calls: an instance has no attribute of its own,
\* so it is the class attribute.
EventsOf(via) == events

\* An identifier of the instance's own.
SessionIdentifierPerInstance(via) == session \o "/" \o via

\* self._session_identifier, the class attribute for the same reason.
SessionIdentifierOf(via) == session

\* _MetricsCollector._clearcut_request
ClearcutRequest(via, t) ==
  [client_info |-> [client_type |-> _PYTHON],
   log_source_name |-> _CONCORD,
   zwieback_cookie |-> SessionIdentifierOf(via),
   request_time_ms |-> NowMs(t),
   log_event |->
     [i \in 1..Len(EventsOf(via)) |->
        [source_extension_json |->
           ToJson(EventsOf(via)[i], dicts, callerKw, heap)]]]

\* Response.raise_for_status(): HTTPError for a 4xx or 5xx status.
RaiseForStatus(status) ==
  IF status >= 400 /\ status < 600 THEN "HTTPError" ELSE NoException

\* requests.post(...).raise_for_status(): what the expression raises.
PostRaises(net) ==
  IF net.err # NoException THEN net.err ELSE RaiseForStatus(net.status)

\* One call of requests.post(url=, data=, headers=, timeout=).
PostCall(via, t) ==
  [url |-> _CLEARCUT_ENDPOINT, data |-> ClearcutRequest(via, t),
   headers |-> None, timeout |-> _HTTP_REQUEST_TIMEOUT_SEC]

\* A submit that posts again when the first POST failed.
PostCallsWithRetry(via, t, net) ==
  IF PostRaises(net) # NoException
  THEN <<PostCall(via, t), PostCall(via, t)>>
  ELSE <<PostCall(via, t)>>

\* The calls of requests.post that one submit_metrics makes: one, whatever
\* the network answers.
PostCalls(via, t, net) == <<PostCall(via, t)>>

\* A submit that empties the buffer.
ClearedBySubmit(evs) == <<>>

\* _events after submit_metrics: the method does not assign or change it.
EventsAfterSubmit(evs) == evs

\* _MetricsCollector.submit_metrics, called by via, the network answering
\* net.
DoSubmit(via, net) ==
  LET calls == PostCalls(via, clock, net)
  IN  /\ post_args' = calls[Len(calls)]
      /\ post_count' = post_count + Len(calls)
      /\ clock' = clock + 1
      /\ submitCalls' = submitCalls + 1
      /\ events' = EventsAfterSubmit(events)
      /\ UNCHANGED <<session, dicts, callerKw, heap, atexit_handlers,
                     shutdown_fn, addLog>>

\* The names a keyword argument must not have: the parameters of
\* add_metrics(self, project_number, metrics_name, **metrics_kw), two of
\* them parameters of add(project_number, metrics_name, **metrics_kw) too.
AddMetricsParams == {K_self, K_project_number, K_metrics_name}

\* A call that accepts any keyword, as if the attributes were passed in
\* one dict parameter.
BindsAnyKeyword(kw) == TRUE

\* Whether the call binds its arguments: a keyword that names a parameter
\* already given makes Python raise TypeError before the body appends.
Binds(kw) == DictKeys(kw) \cap AddMetricsParams = {}

\* The caller's own dict, kept instead of a copy.
CallerDictId(ds) == 0

\* The identity of the dict that {k: v for k, v in metrics_kw.items()}
\* builds: a new object.
NewDictId(ds) == Len(ds) + 1

\* list.insert(0, e)
PrependEvent(evs, e) == <<e>> \o evs

\* self._events.append(concord_event)
AppendEvent(evs, e) == Append(evs, e)

\* _MetricsCollector.add_metrics, and add() that calls it on a new
\* instance; via is the instance or ViaAdd.
DoAdd(via, project_number, metrics_name) ==
  IF Binds(callerKw)
  THEN LET e == ConcordEvent(metrics_name, _DEEP_VARIANT_RUN, project_number,
                             _CLOUD_HCLS_OSS, _VIRTUAL_HCLS_DEEPVARIANT,
                             NewDictId(dicts))
       IN  /\ Len(addLog) < MaxEvents
           /\ dicts' = Append(dicts, callerKw)
           /\ events' = AppendEvent(events, e)
           /\ addLog' = Append(addLog,
                [via |-> via, project_number |-> project_number,
                 metrics_name |-> metrics_name, kw |-> callerKw])
           /\ last' = [op |-> "add", net |-> NoNet,
                       raised |-> NoException, logged |-> <<>>]
  ELSE /\ last' = [op |-> "add", net |-> NoNet,
                   raised |-> "TypeError", logged |-> <<>>]
       /\ UNCHANGED <<events, dicts, addLog>>

----------------------------------------------------------------------------
(* The state after `import metrics`, and the operations *)

Init ==
  /\ events = <<>>
  /\ session \in SessionIds
  /\ dicts = <<>>
  /\ callerKw \in KwInputs
  /\ heap = [o \in ObjIds |-> <<>>]
  /\ post_args = NoCall
  /\ post_count = 0
  /\ clock = 1234
  /\ atexit_handlers = ShutdownDecorated.handlers
  /\ shutdown_fn = ShutdownDecorated.bound
  /\ phase = "running"
  /\ last = [op |-> "import", net |-> NoNet,
             raised |-> NoException, logged |-> <<>>]
  /\ addLog = <<>>
  /\ submitCalls = 0
  /\ shutdownCalls = 0
  /\ shutdownRuns = 0

\* The caller builds the attribute mapping of its next call, which changes
\* the mapping it passed before.
SetKw(kw) ==
  /\ phase = "running"
  /\ kw # callerKw
  /\ callerKw' = kw
  /\ UNCHANGED <<events, session, dicts, heap, post_args, post_count, clock,
                 atexit_handlers, shutdown_fn, phase, last, addLog,
                 submitCalls, shutdownCalls, shutdownRuns>>

\* The caller changes a list object it passed, or will pass, as an
\* attribute value: l.append(1), or l.clear().
MutateList(o) ==
  /\ phase = "running"
  /\ heap' = [heap EXCEPT ![o] = IF @ = <<>> THEN <<1>> ELSE <<>>]
  /\ UNCHANGED <<events, session, dicts, callerKw, post_args, post_count,
                 clock, atexit_handlers, shutdown_fn, phase, last, addLog,
                 submitCalls, shutdownCalls, shutdownRuns>>

\* metrics.add(project_number, metrics_name, **callerKw)
Add(project_number) ==
  /\ phase = "running"
  /\ DoAdd(ViaAdd, project_number, MetricsNameOf(ViaAdd))
  /\ UNCHANGED <<session, callerKw, heap, post_args, post_count, clock,
                 atexit_handlers, shutdown_fn, phase, submitCalls,
                 shutdownCalls, shutdownRuns>>

\* h.add_metrics(project_number, metrics_name, **callerKw)
AddMetrics(h, project_number) ==
  /\ phase = "running"
  /\ DoAdd(h, project_number, MetricsNameOf(h))
  /\ UNCHANGED <<session, callerKw, heap, post_args, post_count, clock,
                 atexit_handlers, shutdown_fn, phase, submitCalls,
                 shutdownCalls, shutdownRuns>>

\* h.submit_metrics(), the network answering net
SubmitMetrics(h, net) ==
  /\ phase = "running"
  /\ submitCalls < MaxPosts
  /\ DoSubmit(h, net)
  /\ last' = [op |-> "submit_metrics", net |-> net,
              raised |-> PostRaises(net), logged |-> <<>>]
  /\ UNCHANGED <<phase, shutdownCalls, shutdownRuns>>

\* metrics.shutdown() called by the program: the callable the module name
\* is bound to runs the body of shutdown, which submits on a new instance.
Shutdown(net) ==
  /\ phase = "running"
  /\ submitCalls < MaxPosts
  /\ DoSubmit(ViaShutdown, net)
  /\ shutdownCalls' = shutdownCalls + 1
  /\ shutdownRuns' = shutdownRuns + 1
  /\ LET r == Invoke(shutdown_fn, PostRaises(net))
     IN  last' = [op |-> "shutdown", net |-> net, raised |-> r.raised,
                  logged |-> r.logged]
  /\ UNCHANGED phase

\* Normal interpreter exit: atexit runs the callables it holds; it holds
\* at most one, which runs the body of shutdown.
Exit(net) ==
  /\ phase = "running"
  /\ phase' = "exited"
  /\ IF atexit_handlers = <<>>
     THEN /\ last' = [op |-> "exit", net |-> NoNet,
                      raised |-> NoException, logged |-> <<>>]
          /\ UNCHANGED <<events, session, dicts, callerKw, heap, post_args,
                         post_count, clock, atexit_handlers, shutdown_fn,
                         addLog, submitCalls, shutdownRuns>>
     ELSE /\ DoSubmit(ViaAtexit, net)
          /\ shutdownRuns' = shutdownRuns + 1
          /\ LET r == Invoke(atexit_handlers[1], PostRaises(net))
             IN  last' = [op |-> "exit", net |-> net, raised |-> r.raised,
                          logged |-> r.logged]
  /\ UNCHANGED shutdownCalls

Next ==
  \/ \E kw \in KwInputs : SetKw(kw)
  \/ \E o \in ObjIds : MutateList(o)
  \/ \E pn \in ProjectNumbers : Add(pn)
  \/ \E h \in AddingHandles, pn \in ProjectNumbers : AddMetrics(h, pn)
  \/ \E h \in Handles, net \in NetOutcomes : SubmitMetrics(h, net)
  \/ \E net \in NetOutcomes : Shutdown(net)
  \/ \E net \in NetOutcomes : Exit(net)

Spec == Init /\ [][Next]_vars

----------------------------------------------------------------------------
(* The buffer after two adds whose attribute mappings hold the same pairs
   in two insertion orders: the states from which the serialization of
   attributes is checked. *)

\* The keys of the enumerated mappings and the value each one carries.
KvKeys == {K_B, K_a, K_ab, K_b}
ValueOfKey(k) ==
  CASE k = K_B -> StrV("string-1")
    [] k = K_a -> IntV(1)
    [] k = K_ab -> BoolV(TRUE)
    [] k = K_b -> RefV(1)

\* Every dict of at most MaxAttrs items over KvKeys, in every insertion order.
KvDicts ==
  LET n == IF MaxAttrs < Cardinality(KvKeys) THEN MaxAttrs ELSE Cardinality(KvKeys)
      keySeqs == UNION {[1..m -> KvKeys] : m \in 0..n}
  IN  {[i \in DOMAIN ks |-> <<ks[i], ValueOfKey(ks[i])>>] :
         ks \in {q \in keySeqs : \A i, j \in DOMAIN q : i # j => q[i] # q[j]}}

\* d2 holds the items of d1, in any order.
IsPermutation(d1, d2) ==
  /\ Len(d1) = Len(d2)
  /\ {d1[i] : i \in 1..Len(d1)} = {d2[i] : i \in 1..Len(d2)}

\* The state after first_metric_collector.add_metrics(123, .., **d1) and
\* metrics.add(123, .., **d2).
InitKV ==
  /\ \E d1 \in KvDicts : \E d2 \in {d \in KvDicts : IsPermutation(d1, d)} :
       /\ dicts = <<d1, d2>>
       /\ callerKw = d2
       /\ addLog = << [via |-> "first_metric_collector", project_number |-> 123,
                       metrics_name |-> MetricsNameOf("first_metric_collector"),
                       kw |-> d1],
                      [via |-> ViaAdd, project_number |-> 123,
                       metrics_name |-> MetricsNameOf(ViaAdd), kw |-> d2] >>
  /\ events =
       << ConcordEvent(MetricsNameOf("first_metric_collector"), _DEEP_VARIANT_RUN,
                       123, _CLOUD_HCLS_OSS, _VIRTUAL_HCLS_DEEPVARIANT, 1),
          ConcordEvent(MetricsNameOf(ViaAdd), _DEEP_VARIANT_RUN,
                       123, _CLOUD_HCLS_OSS, _VIRTUAL_HCLS_DEEPVARIANT, 2) >>
  /\ session \in SessionIds
  /\ heap \in [ObjIds -> ListContents]
  /\ post_args = NoCall
  /\ post_count = 0
  /\ clock = 1234
  /\ atexit_handlers = ShutdownDecorated.handlers
  /\ shutdown_fn = ShutdownDecorated.bound
  /\ phase = "running"
  /\ last = [op |-> "add", net |-> NoNet, raised |-> NoException,
             logged |-> <<>>]
  /\ submitCalls = 0
  /\ shutdownCalls = 0
  /\ shutdownRuns = 0

NextKV ==
  \/ \E o \in ObjIds : MutateList(o)
  \/ \E h \in Handles, net \in NetOutcomes : SubmitMetrics(h, net)
  \/ \E net \in NetOutcomes : Shutdown(net)
  \/ \E net \in NetOutcomes : Exit(net)

SpecKV == InitKV /\ [][NextKV]_vars

----------------------------------------------------------------------------
(* Properties *)

\* The event JSON that the arguments of one add call give, the list
\* objects being as in h.
JsonOfCall(c, h) ==
  [project_number |-> IntToStr(c.project_number),
   event_name |-> c.metrics_name,
   event_type |-> "DeepVariantRun",
   console_type |-> "CLOUD_HCLS_OSS",
   page_hostname |-> "virtual.hcls.deepvariant",
   event_metadata |->
     LET items == Sorted(c.kw)
     IN  [i \in 1..Len(items) |->
            [key |-> items[i][1], value |-> PyStr(items[i][2], h)]]]

\* A step in which submit_metrics was called.
SubmitStep == submitCalls' # submitCalls
\* A step in which requests.post was called.
PostStep == post_count' # post_count

\* C1: whatever handles made the add calls (instances, or the module-level
\* add on its new instance), a submit through any handle posts a log_event
\* list with exactly one entry per add call that returned, in call order.
C1_SubmitSendsEveryAddInOrder ==
  [][SubmitStep =>
       post_args'.data.log_event =
         [i \in 1..Len(addLog) |->
            [source_extension_json |-> JsonOfCall(addLog[i], heap)]]]_vars

\* An event added through the first instance and then one added through
\* the new instance of metrics.add() were posted, in that order, by
\* another instance.
C1_Witness ==
  /\ last.op = "submit_metrics"
  /\ Len(addLog) = 2
  /\ addLog[1].via = "first_metric_collector"
  /\ addLog[2].via = ViaAdd
  /\ Len(post_args.data.log_event) = 2
  /\ post_args.data.log_event[1].source_extension_json.event_name = "test-metrics-1"
  /\ post_args.data.log_event[2].source_extension_json.event_name = "test-metrics-3"

\* C2: no exception of the submit made at interpreter exit propagates out
\* of the callable that atexit runs; it is captured and logged.
C2_NoExceptionLeavesExitHook ==
  last.op = "exit" =>
    /\ last.raised = NoException
    /\ (PostRaises(last.net) # NoException => last.logged # <<>>)

C4_ShutdownRunsOnce == phase = "exited" => shutdownRuns = 1

\* C4, amended: the exit runs the body of shutdown exactly once, with no
\* call of the program needed, and every call of metrics.shutdown() before
\* it ran the body once more.
C4_ExitRunsShutdownOnceMore ==
  /\ (phase = "running" => shutdownRuns = shutdownCalls)
  /\ (phase = "exited"
        => /\ shutdownRuns = shutdownCalls + 1
           /\ last.op = "exit"
           /\ post_count >= 1)

\* The interpreter exited with no add, submit or shutdown call before, and
\* the one POST was made.
C4_Witness ==
  /\ phase = "exited"
  /\ addLog = <<>>
  /\ submitCalls = 1
  /\ shutdownCalls = 0
  /\ shutdownRuns = 1
  /\ post_count = 1

\* C5: every call of submit_metrics makes exactly one call of
\* requests.post, to the fixed endpoint with timeout 10 and no headers,
\* whether the request fails or not.
C5_OnePostPerSubmit ==
  [][SubmitStep =>
       /\ submitCalls' = submitCalls + 1
       /\ post_count' = post_count + 1
       /\ post_args'.url = "https://play.googleapis.com/log"
       /\ post_args'.timeout = 10
       /\ post_args'.headers = None]_vars

\* A submit_metrics whose response was a 503 raised, and one request was
\* made.
C5_Witness ==
  /\ last.op = "submit_metrics"
  /\ last.raised = "HTTPError"
  /\ submitCalls = 1
  /\ post_count = 1

\* s is a prefix of t.
IsPrefix(s, t) == Len(s) <= Len(t) /\ SubSeq(t, 1, Len(s)) = s

\* str(v) with the string of a list blanked: what of the string does not
\* depend on the list objects.
StableStr(v, h) == IF v.type = "list" THEN "<list>" ELSE PyStr(v, h)

\* The JSON of buffered event i as a post made now would carry it.
JsonNow(i) == ToJson(events[i], dicts, callerKw, heap)

\* The same in the next state.
JsonNext(i) == ToJson(events'[i], dicts', callerKw', heap')

\* The JSON of event e with the value strings of list-valued attributes
\* blanked.
Stable(e, ds, kw, h) ==
  LET items == Sorted(Deref(e.event_metadata, ds, kw))
  IN  [ToJson(e, ds, kw, h) EXCEPT !.event_metadata =
         [j \in 1..Len(items) |->
            [key |-> items[j][1], value |-> StableStr(items[j][2], h)]]]
StableNow(i) == Stable(events[i], dicts, callerKw, heap)
StableNext(i) == Stable(events'[i], dicts', callerKw', heap')

\* C6, as stated: submit_metrics leaves the buffer as it was, and the
\* log_event list of the earlier post is a prefix of the list of the later.
C6_SubmitKeepsBufferAndPrefix ==
  [][SubmitStep =>
       /\ events' = events
       /\ (post_count > 0 =>
             IsPrefix(post_args.data.log_event, post_args'.data.log_event))]_vars

\* Entry i of a posted log_event list with the value strings of the
\* list-valued attributes blanked; entry i is event i of the buffer.
StablePosted(call, i) ==
  LET json == call.data.log_event[i].source_extension_json
      items == Sorted(Deref(events[i].event_metadata, dicts, callerKw))
  IN  [json EXCEPT !.event_metadata =
         [j \in 1..Len(items) |->
            IF items[j][2].type = "list"
            THEN [key |-> items[j][1], value |-> "<list>"]
            ELSE json.event_metadata[j]]]

\* C6, amended: submit_metrics leaves the buffer as it was, whether the
\* POST fails or not, so a post carries one entry per event added so far,
\* and the log_event list of the earlier post is a prefix of the list of
\* the later one but for the value strings of list-valued attributes,
\* which are computed at each submit.
C6_SubmitKeepsBuffer ==
  [][SubmitStep =>
       /\ events' = events
       /\ Len(post_args'.data.log_event) = Len(addLog)
       /\ (post_count > 0 =>
             /\ Len(post_args.data.log_event) <= Len(post_args'.data.log_event)
             /\ \A i \in 1..Len(post_args.data.log_event) :
                  StablePosted(post_args, i) = StablePosted(post_args', i))]_vars

\* Two posts were made, the second after a failed first, and the second
\* carries the two buffered events.
C6_Witness ==
  /\ post_count = 2
  /\ last.op = "exit"
  /\ Len(events) = 2
  /\ Len(post_args.data.log_event) = 2

\* C7: the session identifier never changes, and every envelope posted, by
\* whatever handle, carries it as zwieback_cookie: the same value as the
\* envelope before.
C7_OneSessionIdentifier ==
  [][/\ session' = session
     /\ (PostStep =>
           /\ post_args'.data.zwieback_cookie = session
           /\ (post_count > 0 =>
                 post_args'.data.zwieback_cookie = post_args.data.zwieback_cookie))]_vars

\* A second envelope was posted, after an add, with the session identifier.
C7_Witness ==
  /\ post_count = 2
  /\ Len(addLog) >= 1
  /\ post_args.data.zwieback_cookie = session

\* The parameter names of add_metrics, as code points.
ParamNames ==
  { <<115, 101, 108, 102>>,
    <<112, 114, 111, 106, 101, 99, 116, 95, 110, 117, 109, 98, 101, 114>>,
    <<109, 101, 116, 114, 105, 99, 115, 95, 110, 97, 109, 101>> }

\* A step of add or add_metrics.
AddStep ==
  /\ last'.op = "add"
  /\ (last' # last \/ addLog' # addLog \/ events' # events)

\* C8, as stated: add returns normally for every attribute mapping.
C8_AddNeverRaises == last.op = "add" => last.raised = NoException

\* C8, amended: add makes no request and leaves the session identifier
\* alone; when no attribute key is self, project_number or metrics_name it
\* returns normally and appends exactly one event after the buffered ones,
\* which stay as they were; when one is, the call raises TypeError and the
\* buffer stays as it was.
C8_AddAppendsOneOrRaisesTypeError ==
  [][AddStep =>
       /\ post_count' = post_count
       /\ post_args' = post_args
       /\ session' = session
       /\ IF DictKeys(callerKw) \cap ParamNames = {}
          THEN /\ last'.raised = NoException
               /\ Len(events') = Len(events) + 1
               /\ SubSeq(events', 1, Len(events)) = events
               /\ \A i \in 1..Len(events) : JsonNext(i) = JsonNow(i)
               /\ ToJson(events'[Len(events')], dicts', callerKw', heap') =
                    JsonOfCall(addLog'[Len(addLog')], heap)
          ELSE /\ last'.raised = "TypeError"
               /\ events' = events
               /\ \A i \in 1..Len(events) : JsonNext(i) = JsonNow(i)]_vars

\* An add returned normally after a post was made, with one event buffered
\* before it.
C8_Witness ==
  /\ last.op = "add"
  /\ last.raised = NoException
  /\ Len(events) = 2
  /\ post_count = 1

\* An add raised TypeError with an event buffered.
C8_WitnessRaise ==
  /\ last.op = "add"
  /\ last.raised = "TypeError"
  /\ Len(events) = 1

\* C9: two attribute mappings with the same pairs in different insertion
\* orders serialize to the same event_metadata, one {key, value} entry per
\* attribute, in ascending order of key.
C9_MetadataIndependentOfInsertionOrder ==
  post_count > 0 =>
    LET m1 == post_args.data.log_event[1].source_extension_json.event_metadata
        m2 == post_args.data.log_event[2].source_extension_json.event_metadata
    IN  /\ m1 = m2
        /\ Len(m1) = Len(dicts[1])
        /\ \A i \in 1..Len(dicts[1]) :
             \E j \in 1..Len(m1) :
               /\ m1[j].key = dicts[1][i][1]
               /\ m1[j].value \in {PyStr(dicts[1][i][2], h) : h \in [ObjIds -> ListContents]}
        /\ \A i, j \in 1..Len(m1) : i < j => StrLess(m1[i].key, m1[j].key)

\* Two mappings of three attributes in two different insertion orders,
\* neither of them sorted, were posted.
C9_Witness ==
  /\ post_count > 0
  /\ Len(dicts[1]) = 3
  /\ dicts[1] # dicts[2]
  /\ dicts[1] # Sorted(dicts[1])
  /\ dicts[2] # Sorted(dicts[2])

\* C10, as stated: what a buffered event serializes to never changes after
\* the add, whatever the caller does to the mapping or to a value object.
C10_SerializedFormFixedAtAdd ==
  [][/\ Len(events) <= Len(events')
     /\ \A i \in 1..Len(events) : JsonNext(i) = JsonNow(i)]_vars

\* C10, amended: after the add, a buffered event keeps its name, project
\* number and attribute keys, and the strings of its str, int and bool
\* values, whatever the caller does to the mapping it passed; the string of
\* a list value is computed at each submit, so it follows the list; while
\* no list changes, the serialized form stays the same.
C10_SerializedFormFollowsOnlyValueObjects ==
  [][/\ Len(events) <= Len(events')
     /\ \A i \in 1..Len(events) :
          IF heap' = heap
          THEN JsonNext(i) = JsonNow(i)
          ELSE StableNext(i) = StableNow(i)]_vars

\* A post carried an event with a list-valued attribute, and the list was
\* changed afterwards: a post made now would carry another string for it.
C10_Witness ==
  /\ post_count > 0
  /\ Len(post_args.data.log_event) = Len(events)
  /\ \E i \in 1..Len(events) :
       /\ post_args.data.log_event[i].source_extension_json # JsonNow(i)
       /\ StableNow(i) # JsonNow(i)

====
